---- MODULE Spec2Model ----
(***************************************************************************)
(* Verification core of the pathfinder full node:                          *)
(*   - crates/gateway-types/src/transaction_hash.rs  (verify, verify2,     *)
(*     compute_transaction_hash and the per-kind hash formulas);           *)
(*   - crates/pathfinder/src/sync/state_updates.rs   (VerifyCommitment,    *)
(*     UpdateStarknetState, next_missing, length_and_commitment_stream).   *)
(*                                                                         *)
(* Each component has its own specification over the shared variables:     *)
(* SpecTx (verify, verify2), SpecHash (compute_transaction_hash), SpecVc   *)
(* (VerifyCommitment::map), SpecStage (UpdateStarknetState::map, a call    *)
(* per step), SpecAtomic (the same map one storage operation per step,     *)
(* with the call abandoned at any of them, or a stream abandoned),         *)
(* SpecMissing (next_missing) and SpecStream                               *)
(* (length_and_commitment_stream); the variables of the components a       *)
(* specification does not run stay idle.                                   *)
(*                                                                         *)
(* Field elements are modelled symbolically: a plain value n is the        *)
(* 1-tuple <<n>> and the Pedersen hash of (a, b) is the pair <<a, b>>, so  *)
(* that two hashes are equal exactly when their inputs are (the collision  *)
(* resistance the specification assumes).  The empty tuple <<>> is         *)
(* Option::None wherever the code has an Option<Felt>.                     *)
(***************************************************************************)
EXTENDS Integers, Sequences, FiniteSets, TLC

VARIABLES
    txn,             \* verify/verify2: the transaction under verification
    chain_id,        \* verify/verify2: the chain id argument
    block_number,    \* verify/verify2: the block number argument
    verify_chain,    \* verify: local `chain_id` after the shadowing at line 25
    verify_result,   \* verify: the returned Result<bool>
    verify2_chain,   \* verify2: local `chain_id` after the shadowing at line 51
    verify2_result,  \* verify2: the returned Result<bool>
    computed,        \* compute_transaction_hash: the returned ComputedTransactionHash
    vc_input,        \* VerifyCommitment::map: (UnverifiedStateUpdateData, StarknetVersion)
    vc_result,       \* VerifyCommitment::map: the returned Result<StateUpdateData, SyncError2>
    db,              \* the persistent store, as committed
    current_block,   \* UpdateStarknetState::current_block
    start_block,     \* current_block when the stage was constructed
    map_input,       \* UpdateStarknetState::map: the StateUpdateData of the last call
    map_fault,       \* the storage operation that failed in the last call, if any
    map_result,      \* UpdateStarknetState::map: the returned Result<BlockNumber, SyncError2>
    prev_db,         \* the persistent store before the last call
    prev_block,      \* current_block before the last call
    returned,        \* the block numbers returned by the successful calls, in order
    map_pc,          \* UpdateStarknetState::map run step by step: the next operation
    tx_view,         \* the store as the open transaction `db` of map sees it
    map_locals,      \* the locals of map: header, parent_state_commitment, ...
    state_diffs,     \* the store as the readers see it: block number -> the
                     \* (state diff length, commitment) row of its state update
    nm_head,         \* next_missing: the `head` argument
    nm_fault,        \* next_missing: the operation that failed, if any
    nm_result,       \* next_missing: the returned Result<Option<BlockNumber>>
    stream_start,    \* length_and_commitment_stream: `start` (mutable)
    stream_stop,     \* length_and_commitment_stream: `stop`
    stream_batch,    \* length_and_commitment_stream: `batch`
    stream_pc,       \* the stream: "idle", "running", "done", "failed" or "abandoned"
    stream_error,    \* the error the stream yielded, "none" without one
    stream_yielded,  \* the Ok items the stream yielded, in order
    stream_start0,   \* `start` when the stream was constructed
    stream_rows0,    \* the rows of the store when the stream was constructed
    stream_fetch     \* the last batch fetch: what it asked for and what it got

txvars == <<txn, chain_id, block_number, verify_chain, verify_result,
            verify2_chain, verify2_result, computed>>

vcvars == <<vc_input, vc_result>>

stepvars == <<map_pc, tx_view, map_locals>>

stagevars == <<db, current_block, start_block, map_input, map_fault, map_result,
               prev_db, prev_block, returned, stepvars>>

missingvars == <<nm_head, nm_fault, nm_result>>

streamvars == <<stream_start, stream_stop, stream_batch, stream_pc, stream_error,
                stream_yielded, stream_start0, stream_rows0, stream_fetch>>

readvars == <<state_diffs, missingvars, streamvars>>

vars == <<txvars, vcvars, stagevars, readvars>>

(***************************************************************************)
(* Bounds of the model.                                                    *)
(***************************************************************************)
\* longest calldata / constructor_calldata list
MaxCalldataLen == 1
\* largest txn_idx passed to verify2
MaxTxnIdx == 1

\* `block_number.get() <= 21086`
TESTNET2_LAST_TESTNET_BLOCK == 21086

(***************************************************************************)
(* stark_hash::{Felt, HashChain}                                           *)
(***************************************************************************)
None == <<>>

Atom(n) == <<n>>

Felt_ZERO == Atom(0)

\* the values a transaction's plain fields (addresses, fees, nonces, ...) take
FeltValues == {Atom(0), Atom(1)}

pedersen_hash(a, b) == <<a, b>>

HashChain_default == [hash |-> Felt_ZERO, count |-> 0]

HashChain_update(hc, felt) ==
    [hash |-> pedersen_hash(hc.hash, felt), count |-> hc.count + 1]

HashChain_finalize(hc) == pedersen_hash(hc.hash, Atom(hc.count))

\* `list.iter().fold(hh, |mut hh, x| { hh.update(x.0); hh })`
RECURSIVE HashChain_fold(_, _)
HashChain_fold(hc, felts) ==
    IF felts = <<>> THEN hc
    ELSE HashChain_fold(HashChain_update(hc, Head(felts)), Tail(felts))

\* Felt::from_be_slice on the fixed ASCII prefixes: one distinct value each.
\* The conversion is total here: the prefixes fit a field element, and the
\* versions it is also applied to (line 515) are field elements already and
\* keep their value.
Felt_from_be_slice(prefix) ==
    CASE prefix = "declare"        -> Atom(101)
      [] prefix = "deploy"         -> Atom(102)
      [] prefix = "deploy_account" -> Atom(103)
      [] prefix = "invoke"         -> Atom(104)
      [] prefix = "l1_handler"     -> Atom(105)

\* pathfinder_common::ChainId constants
ChainId_MAINNET == Atom(201)
ChainId_TESTNET == Atom(202)
ChainId_TESTNET2 == Atom(203)

ChainIds == {ChainId_MAINNET, ChainId_TESTNET, ChainId_TESTNET2}

TransactionVersion_ZERO == Atom(0)
TransactionVersion_ONE == Atom(1)
TransactionVersion_TWO == Atom(2)

\* lazy_static CONSTRUCTOR = truncated_keccak(keccak256("constructor"))
CONSTRUCTOR == Atom(300)

(***************************************************************************)
(* compute_txn_hash / legacy_compute_txn_hash                              *)
(***************************************************************************)
NonceOrClassHash_Nonce(n) == [tag |-> "Nonce", felt |-> n]
NonceOrClassHash_ClassHash(c) == [tag |-> "ClassHash", felt |-> c]
NonceOrClassHash_None == [tag |-> "None", felt |-> None]

unwrap_or(opt, default) == IF opt = None THEN default ELSE opt

legacy_compute_txn_hash(prefix, address, entry_point_selector, list_hash, chain) ==
    LET h1 == HashChain_update(HashChain_default, Felt_from_be_slice(prefix))
        h2 == HashChain_update(h1, address)
        h3 == HashChain_update(h2, unwrap_or(entry_point_selector, Felt_ZERO))
        h4 == HashChain_update(h3, list_hash)
        h5 == HashChain_update(h4, chain)
    IN  HashChain_finalize(h5)

\* mutant: the fee is fed to the accumulator before the list hash
compute_txn_hash_fee_first(prefix, version, address, entry_point_selector, list_hash, max_fee, chain, nonce_or_class_hash, compiled_class_hash) ==
    LET h1 == HashChain_update(HashChain_default, Felt_from_be_slice(prefix))
        h2 == HashChain_update(h1, version)
        h3 == HashChain_update(h2, address)
        h4 == HashChain_update(h3, unwrap_or(entry_point_selector, Felt_ZERO))
        h5 == HashChain_update(h4, unwrap_or(max_fee, Felt_ZERO))
        h6 == HashChain_update(h5, list_hash)
        h7 == HashChain_update(h6, chain)
        h8 == IF nonce_or_class_hash.tag = "None"
              THEN h7
              ELSE HashChain_update(h7, nonce_or_class_hash.felt)
        h9 == IF compiled_class_hash # None
              THEN HashChain_update(h8, compiled_class_hash)
              ELSE h8
    IN  HashChain_finalize(h9)

compute_txn_hash(prefix, version, address, entry_point_selector, list_hash, max_fee, chain, nonce_or_class_hash, compiled_class_hash) ==
    LET h1 == HashChain_update(HashChain_default, Felt_from_be_slice(prefix))
        h2 == HashChain_update(h1, version)
        h3 == HashChain_update(h2, address)
        h4 == HashChain_update(h3, unwrap_or(entry_point_selector, Felt_ZERO))
        h5 == HashChain_update(h4, list_hash)
        h6 == HashChain_update(h5, unwrap_or(max_fee, Felt_ZERO))
        h7 == HashChain_update(h6, chain)
        h8 == CASE nonce_or_class_hash.tag = "Nonce" ->
                     HashChain_update(h7, nonce_or_class_hash.felt)
                [] nonce_or_class_hash.tag = "ClassHash" ->
                     HashChain_update(h7, nonce_or_class_hash.felt)
                [] nonce_or_class_hash.tag = "None" -> h7
        h9 == IF compiled_class_hash # None
              THEN HashChain_update(h8, compiled_class_hash)
              ELSE h8
    IN  HashChain_finalize(h9)

(***************************************************************************)
(* reply::transaction::Transaction                                         *)
(*   variant: the enum variant (Declare V0/V1/V2, Deploy, DeployAccount,   *)
(*   Invoke V0/V1, L1Handler); every record carries the fields its Rust    *)
(*   struct has and the hash functions read.                               *)
(***************************************************************************)
Transaction_hash(t) == t.transaction_hash

\* the kind of the tagged union, without the version
TxnKind(t) ==
    CASE t.variant \in {"DeclareV0", "DeclareV1", "DeclareV2"} -> "Declare"
      [] t.variant \in {"InvokeV0", "InvokeV1"} -> "Invoke"
      [] OTHER -> t.variant

\* the version: fixed by the enum variant for Declare and Invoke, the
\* `version` field for Deploy, DeployAccount and L1Handler
TxnVersion(t) ==
    CASE t.variant \in {"DeclareV0", "InvokeV0"} -> TransactionVersion_ZERO
      [] t.variant \in {"DeclareV1", "InvokeV1"} -> TransactionVersion_ONE
      [] t.variant = "DeclareV2" -> TransactionVersion_TWO
      [] OTHER -> t.version

(***************************************************************************)
(* ComputedTransactionHash: the variant and its hash (None only inside     *)
(* InvokeV0).  `formula` records which formula produced the hash:          *)
(* "primary" (compute_txn_hash), "legacy" (legacy_compute_txn_hash after   *)
(* a primary attempt) or "none" (no formula was applied).                  *)
(***************************************************************************)
Computed(variant, h, formula) == [variant |-> variant, h |-> h, formula |-> formula]

ComputedTransactionHash_hash(c) == c.h

compute_declare_v0_hash(t, chain) ==
    Computed("DeclareV0",
             compute_txn_hash("declare", TransactionVersion_ZERO, t.sender_address,
                              None, HashChain_finalize(HashChain_default), None,
                              chain, NonceOrClassHash_ClassHash(t.class_hash), None),
             "primary")

compute_declare_v1_hash(t, chain) ==
    Computed("DeclareV1",
             compute_txn_hash("declare", TransactionVersion_ONE, t.sender_address,
                              None,
                              HashChain_finalize(HashChain_update(HashChain_default, t.class_hash)),
                              t.max_fee, chain, NonceOrClassHash_Nonce(t.nonce), None),
             "primary")

compute_declare_v2_hash(t, chain) ==
    Computed("DeclareV2",
             compute_txn_hash("declare", TransactionVersion_TWO, t.sender_address,
                              None,
                              HashChain_finalize(HashChain_update(HashChain_default, t.class_hash)),
                              t.max_fee, chain, NonceOrClassHash_Nonce(t.nonce),
                              t.compiled_class_hash),
             "primary")

\* lines 236-245
deploy_constructor_params_hash(t) ==
    HashChain_finalize(HashChain_fold(HashChain_default, t.constructor_calldata))

\* lines 247-257: the primary attempt
deploy_primary_hash(t, chain) ==
    compute_txn_hash("deploy", t.version, t.contract_address, CONSTRUCTOR,
                     deploy_constructor_params_hash(t), None, chain,
                     NonceOrClassHash_None, None)

\* lines 262-268: the fallback
deploy_legacy_hash(t, chain) ==
    legacy_compute_txn_hash("deploy", t.contract_address, CONSTRUCTOR,
                            deploy_constructor_params_hash(t), chain)

\* mutant: the formula is picked by the calldata being empty, not by the
\* comparison with the claimed hash
compute_deploy_hash_by_calldata(t, chain) ==
    IF t.constructor_calldata # <<>>
    THEN Computed("Deploy", deploy_primary_hash(t, chain), "primary")
    ELSE Computed("Deploy", deploy_legacy_hash(t, chain), "legacy")

compute_deploy_hash(t, chain) ==
    LET h == deploy_primary_hash(t, chain)
    IN  IF h = t.transaction_hash
        THEN Computed("Deploy", h, "primary")
        ELSE Computed("Deploy", deploy_legacy_hash(t, chain), "legacy")

compute_deploy_account_hash(t, chain) ==
    Computed("DeployAccount",
             compute_txn_hash("deploy_account", t.version, t.contract_address, None,
                              HashChain_finalize(
                                  HashChain_fold(
                                      HashChain_update(
                                          HashChain_update(HashChain_default, t.class_hash),
                                          t.contract_address_salt),
                                      t.constructor_calldata)),
                              t.max_fee, chain, NonceOrClassHash_Nonce(t.nonce), None),
             "primary")

\* lines 335-342
invoke_v0_call_params_hash(t) ==
    HashChain_finalize(HashChain_fold(HashChain_default, t.calldata))

\* lines 344-354: the primary attempt
invoke_v0_primary_hash(t, chain) ==
    compute_txn_hash("invoke", TransactionVersion_ZERO, t.sender_address,
                     t.entry_point_selector, invoke_v0_call_params_hash(t),
                     t.max_fee, chain, NonceOrClassHash_None, None)

\* lines 359-365: the fallback
invoke_v0_legacy_hash(t, chain) ==
    legacy_compute_txn_hash("invoke", t.sender_address, t.entry_point_selector,
                            invoke_v0_call_params_hash(t), chain)

\* mutant: no early return for the L1Handler entry point type
compute_invoke_v0_hash_no_skip(t, chain) ==
    LET h == invoke_v0_primary_hash(t, chain)
    IN  IF h = t.transaction_hash
        THEN Computed("InvokeV0", h, "primary")
        ELSE Computed("InvokeV0", invoke_v0_legacy_hash(t, chain), "legacy")

compute_invoke_v0_hash(t, chain) ==
    IF t.entry_point_type = "L1Handler"
    THEN Computed("InvokeV0", None, "none")
    ELSE LET h == invoke_v0_primary_hash(t, chain)
         IN  IF h = t.transaction_hash
             THEN Computed("InvokeV0", h, "primary")
             ELSE Computed("InvokeV0", invoke_v0_legacy_hash(t, chain), "legacy")

compute_invoke_v1_hash(t, chain) ==
    Computed("InvokeV1",
             compute_txn_hash("invoke", TransactionVersion_ONE, t.sender_address, None,
                              HashChain_finalize(HashChain_fold(HashChain_default, t.calldata)),
                              t.max_fee, chain, NonceOrClassHash_Nonce(t.nonce), None),
             "primary")

\* lines 420-427
l1_handler_call_params_hash(t) ==
    HashChain_finalize(HashChain_fold(HashChain_default, t.calldata))

\* lines 429-439: the primary attempt
l1_handler_primary_hash(t, chain) ==
    compute_txn_hash("l1_handler", t.version, t.contract_address,
                     t.entry_point_selector, l1_handler_call_params_hash(t),
                     None, chain, NonceOrClassHash_Nonce(t.nonce), None)

\* mutant: the fallback with the kind's own prefix
l1_handler_legacy_hash_own_prefix(t, chain) ==
    legacy_compute_txn_hash("l1_handler", t.contract_address, t.entry_point_selector,
                            l1_handler_call_params_hash(t), chain)

\* lines 444-453: the fallback, with the "invoke" prefix
l1_handler_legacy_hash(t, chain) ==
    legacy_compute_txn_hash("invoke", t.contract_address, t.entry_point_selector,
                            l1_handler_call_params_hash(t), chain)

\* mutant: no fallback to the legacy formula
compute_l1_handler_hash_no_fallback(t, chain) ==
    Computed("L1Handler", l1_handler_primary_hash(t, chain), "primary")

compute_l1_handler_hash(t, chain) ==
    LET h == l1_handler_primary_hash(t, chain)
    IN  IF h = t.transaction_hash
        THEN Computed("L1Handler", h, "primary")
        ELSE Computed("L1Handler", l1_handler_legacy_hash(t, chain), "legacy")

compute_transaction_hash(t, chain) ==
    CASE t.variant = "DeclareV0"     -> compute_declare_v0_hash(t, chain)
      [] t.variant = "DeclareV1"     -> compute_declare_v1_hash(t, chain)
      [] t.variant = "DeclareV2"     -> compute_declare_v2_hash(t, chain)
      [] t.variant = "Deploy"        -> compute_deploy_hash(t, chain)
      [] t.variant = "DeployAccount" -> compute_deploy_account_hash(t, chain)
      [] t.variant = "InvokeV0"      -> compute_invoke_v0_hash(t, chain)
      [] t.variant = "InvokeV1"      -> compute_invoke_v1_hash(t, chain)
      [] t.variant = "L1Handler"     -> compute_l1_handler_hash(t, chain)

(***************************************************************************)
(* verify / verify2                                                        *)
(***************************************************************************)
\* Result<bool> of verify; the error message carries expected and computed
Ok(b) == [tag |-> "Ok", value |-> b, expected |-> None, computed |-> None,
          block |-> 0, idx |-> 0]
VerifyErr(expected, actual) ==
    [tag |-> "Err", value |-> FALSE, expected |-> expected, computed |-> actual,
     block |-> 0, idx |-> 0]
Verify2Err(block, idx, expected, actual) ==
    [tag |-> "Err", value |-> FALSE, expected |-> expected, computed |-> actual,
     block |-> block, idx |-> idx]
NotCalled == [tag |-> "NotCalled", value |-> FALSE, expected |-> None,
              computed |-> None, block |-> 0, idx |-> 0]

\* mutant: the boundary block itself is not remapped
verify_chain_id_strict(c, b) ==
    IF c = ChainId_TESTNET2 /\ b < TESTNET2_LAST_TESTNET_BLOCK
    THEN ChainId_TESTNET
    ELSE c

\* lines 25-29: the `chain_id` that shadows the argument in verify
verify_chain_id(c, b) ==
    IF c = ChainId_TESTNET2 /\ b <= TESTNET2_LAST_TESTNET_BLOCK
    THEN ChainId_TESTNET
    ELSE c

\* mutant: verify2 without the testnet2 remapping
verify2_chain_id_no_remap(c, b) == c

\* lines 51-55: the `chain_id` that shadows the argument in verify2
verify2_chain_id(c, b) ==
    IF c = ChainId_TESTNET2 /\ b <= TESTNET2_LAST_TESTNET_BLOCK
    THEN ChainId_TESTNET
    ELSE c

\* mutant: the mismatch arm guarded by equality
verify_inverted(t, c, b) ==
    LET chain == verify_chain_id(c, b)
        computed_hash == ComputedTransactionHash_hash(compute_transaction_hash(t, chain))
    IN  CASE computed_hash # None /\ computed_hash = Transaction_hash(t) ->
                 VerifyErr(Transaction_hash(t), computed_hash)
          [] computed_hash # None /\ ~(computed_hash = Transaction_hash(t)) -> Ok(FALSE)
          [] computed_hash = None -> Ok(TRUE)

\* lines 31-41
verify(t, c, b) ==
    LET chain == verify_chain_id(c, b)
        computed_hash == ComputedTransactionHash_hash(compute_transaction_hash(t, chain))
    IN  CASE computed_hash # None /\ computed_hash # Transaction_hash(t) ->
                 VerifyErr(Transaction_hash(t), computed_hash)
          [] computed_hash # None /\ ~(computed_hash # Transaction_hash(t)) -> Ok(FALSE)
          [] computed_hash = None -> Ok(TRUE)

\* lines 57-71
verify2(t, c, b, txn_idx) ==
    LET chain == verify2_chain_id(c, b)
        computed_hash == ComputedTransactionHash_hash(compute_transaction_hash(t, chain))
    IN  CASE computed_hash # None /\ computed_hash = Transaction_hash(t) ->
                 Verify2Err(b, txn_idx, Transaction_hash(t), computed_hash)
          [] computed_hash # None /\ ~(computed_hash = Transaction_hash(t)) -> Ok(FALSE)
          [] computed_hash = None -> Ok(TRUE)

(***************************************************************************)
(* StateUpdateData and VerifyCommitment                                    *)
(*   Option<T> is a sequence: <<>> is None and <<x>> is Some(x).           *)
(***************************************************************************)
Some(x) == <<x>>

\* the contracts, storage values and classes the diffs are made of
ContractUpdateChoices == {{}, {<<"contract_1", "value_1">>}}
SierraClassChoices == {{}, {<<"sierra_1", "casm_1">>}}

\* pathfinder_common::state_update::StateUpdateData
StateUpdateDatas ==
    [contract_updates : ContractUpdateChoices,
     system_contract_updates : {{}},
     declared_cairo_classes : {{}},
     declared_sierra_classes : SierraClassChoices]

\* pathfinder_common::StarknetVersion: the tag that selects the formula
StarknetVersions == {"V_0_13_1", "V_0_13_2", "V_0_13_3"}

\* StateUpdateData::compute_state_diff_commitment(version): a commitment
\* that determines the diff and the formula it was made with
compute_state_diff_commitment(state_diff, version) ==
    [formula |-> version, diff |-> state_diff]

\* a commitment no diff has
UnrelatedCommitment ==
    [formula |-> "none",
     diff |-> [contract_updates |-> {}, system_contract_updates |-> {},
               declared_cairo_classes |-> {}, declared_sierra_classes |-> {}]]

StateDiffCommitments ==
    {UnrelatedCommitment}
    \cup {compute_state_diff_commitment(d, v) : d \in StateUpdateDatas, v \in StarknetVersions}

\* Result<StateUpdateData, SyncError2> of VerifyCommitment::map
VcOk(state_diff) == [tag |-> "Ok", diff |-> Some(state_diff), err |-> "none"]
VcErr(e) == [tag |-> "Err", diff |-> None, err |-> e]
VcNotCalled == [tag |-> "NotCalled", diff |-> None, err |-> "none"]

\* mutant: the diff is forwarded without comparing the commitments
VerifyCommitment_map_unchecked(input) == VcOk(input.state_diff)

\* VerifyCommitment::map
VerifyCommitment_map(input) ==
    LET actual == compute_state_diff_commitment(input.state_diff, input.version)
    IN  IF actual # input.expected_commitment
        THEN VcErr("StateDiffCommitmentMismatch")
        ELSE VcOk(input.state_diff)

(***************************************************************************)
(* The persistent store and UpdateStarknetState                            *)
(*   The store is a record of tables indexed by block number:              *)
(*     headers        block_header(n), immutable for the stage;            *)
(*     commitments    the storage and class trie roots of block n;         *)
(*     state_updates  the StateUpdate record of block n;                   *)
(*     tries          the leaves of the storage trie and the class trie.   *)
(*   A trie root is modelled by the set of leaves it commits to.           *)
(***************************************************************************)
\* the last block number the store has a header table row for
MaxBlock == 1

Blocks == 0..MaxBlock

StorageCommitments == ContractUpdateChoices
ClassCommitments == SierraClassChoices

\* StateCommitment::calculate(storage_commitment, class_commitment)
StateCommitment_calculate(storage_commitment, class_commitment) ==
    [storage |-> storage_commitment, class |-> class_commitment]

\* StateCommitment::default(): the zero commitment, that of two empty tries
StateCommitment_default == StateCommitment_calculate({}, {})

StateCommitments ==
    {StateCommitment_calculate(sc, cc) : sc \in StorageCommitments, cc \in ClassCommitments}

\* BlockNumber::parent
BlockNumber_parent(n) == IF n = 0 THEN None ELSE Some(n - 1)

\* Transaction::block_header(number)
block_header(tx, n) == IF n \in Blocks THEN tx.headers[n] ELSE None

\* Transaction::state_commitment(number): the state commitment of the header
state_commitment(tx, n) ==
    IF block_header(tx, n) = None
    THEN None
    ELSE Some(block_header(tx, n)[1].state_commitment)

\* the leaves of a trie after the updates: an updated key replaces its leaf
apply_updates(leaves, updates) ==
    {l \in leaves : \A u \in updates : u[1] # l[1]} \cup updates

\* crate::state::update_starknet_state: writes the tries inside the
\* transaction and returns the two roots
update_starknet_state(tx, state_update) ==
    LET storage == apply_updates(
                       apply_updates(tx.tries.storage, state_update.contract_updates),
                       state_update.system_contract_updates)
        class == apply_updates(tx.tries.class, state_update.declared_sierra_classes)
    IN  [tx |-> [tx EXCEPT !.tries = [storage |-> storage, class |-> class]],
         storage_commitment |-> storage,
         class_commitment |-> class]

\* Transaction::update_storage_and_class_commitments
update_storage_and_class_commitments(tx, n, storage_commitment, class_commitment) ==
    [tx EXCEPT !.commitments[n] =
        Some([storage_commitment |-> storage_commitment,
              class_commitment |-> class_commitment])]

\* Transaction::insert_state_update
insert_state_update(tx, n, state_update) ==
    [tx EXCEPT !.state_updates[n] = Some(state_update)]

\* Result<BlockNumber, SyncError2> of UpdateStarknetState::map
MapOk(n) == [tag |-> "Ok", block |-> n, err |-> "none"]
MapErr(e) == [tag |-> "Err", block |-> 0, err |-> e]
MapNotCalled == [tag |-> "NotCalled", block |-> 0, err |-> "none"]

\* the fallible storage operations of map; "none": all of them succeed
Faults ==
    {"none", "transaction", "block_header", "state_commitment",
     "update_starknet_state", "update_storage_and_class_commitments",
     "insert_state_update", "commit"}

\* an early return: the open transaction is dropped and rolled back
MapFailed(store, cursor, e) ==
    [db |-> store, current_block |-> cursor, result |-> MapErr(e)]

\* lines 165-173
StateUpdate_new(header, parent_state_commitment, state_update) ==
    [block_hash |-> header.hash,
     parent_state_commitment |-> parent_state_commitment,
     state_commitment |-> header.state_commitment,
     contract_updates |-> state_update.contract_updates,
     system_contract_updates |-> state_update.system_contract_updates,
     declared_cairo_classes |-> state_update.declared_cairo_classes,
     declared_sierra_classes |-> state_update.declared_sierra_classes]

\* mutant: the cursor is not advanced after the commit
map_update_and_commit_no_increment(store, cursor, header, parent_state_commitment, input, fault) ==
    LET state_update == StateUpdate_new(header, parent_state_commitment, input)
        updated == update_starknet_state(store, state_update)
        tx2 == update_storage_and_class_commitments(
                   updated.tx, cursor, updated.storage_commitment, updated.class_commitment)
        tx3 == insert_state_update(tx2, cursor, state_update)
    IN  IF fault = "update_starknet_state"
        THEN MapFailed(store, cursor, "Updating Starknet state")
        ELSE IF StateCommitment_calculate(updated.storage_commitment, updated.class_commitment)
                # header.state_commitment
        THEN MapFailed(store, cursor, "StateRootMismatch")
        ELSE IF fault = "update_storage_and_class_commitments"
        THEN MapFailed(store, cursor, "Updating storage commitment")
        ELSE IF fault = "insert_state_update"
        THEN MapFailed(store, cursor, "Inserting state update data")
        ELSE IF fault = "commit"
        THEN MapFailed(store, cursor, "Committing db transaction")
        ELSE [db |-> tx3, current_block |-> cursor, result |-> MapOk(cursor)]

\* mutant: the roots are compared after the writes were committed
map_update_and_commit_check_last(store, cursor, header, parent_state_commitment, input, fault) ==
    LET state_update == StateUpdate_new(header, parent_state_commitment, input)
        updated == update_starknet_state(store, state_update)
        tx2 == update_storage_and_class_commitments(
                   updated.tx, cursor, updated.storage_commitment, updated.class_commitment)
        tx3 == insert_state_update(tx2, cursor, state_update)
    IN  IF fault = "update_starknet_state"
        THEN MapFailed(store, cursor, "Updating Starknet state")
        ELSE IF fault = "update_storage_and_class_commitments"
        THEN MapFailed(store, cursor, "Updating storage commitment")
        ELSE IF fault = "insert_state_update"
        THEN MapFailed(store, cursor, "Inserting state update data")
        ELSE IF fault = "commit"
        THEN MapFailed(store, cursor, "Committing db transaction")
        ELSE IF StateCommitment_calculate(updated.storage_commitment, updated.class_commitment)
                # header.state_commitment
        THEN [db |-> tx3, current_block |-> cursor, result |-> MapErr("StateRootMismatch")]
        ELSE [db |-> tx3, current_block |-> cursor + 1, result |-> MapOk(cursor)]

\* mutant: the cursor is advanced before the commit, so a failing commit
\* leaves it advanced
map_update_and_commit_increment_first(store, cursor, header, parent_state_commitment, input, fault) ==
    LET state_update == StateUpdate_new(header, parent_state_commitment, input)
        updated == update_starknet_state(store, state_update)
        tx2 == update_storage_and_class_commitments(
                   updated.tx, cursor, updated.storage_commitment, updated.class_commitment)
        tx3 == insert_state_update(tx2, cursor, state_update)
    IN  IF fault = "update_starknet_state"
        THEN MapFailed(store, cursor, "Updating Starknet state")
        ELSE IF StateCommitment_calculate(updated.storage_commitment, updated.class_commitment)
                # header.state_commitment
        THEN MapFailed(store, cursor, "StateRootMismatch")
        ELSE IF fault = "update_storage_and_class_commitments"
        THEN MapFailed(store, cursor, "Updating storage commitment")
        ELSE IF fault = "insert_state_update"
        THEN MapFailed(store, cursor, "Inserting state update data")
        ELSE IF fault = "commit"
        THEN MapFailed(store, cursor + 1, "Committing db transaction")
        ELSE [db |-> tx3, current_block |-> cursor + 1, result |-> MapOk(cursor)]

\* lines 175-197, once header and parent commitment are known
map_update_and_commit(store, cursor, header, parent_state_commitment, input, fault) ==
    LET tail == cursor
        state_update == StateUpdate_new(header, parent_state_commitment, input)
        updated == update_starknet_state(store, state_update)
        storage_commitment == updated.storage_commitment
        class_commitment == updated.class_commitment
        state_commitment_ == StateCommitment_calculate(storage_commitment, class_commitment)
        tx2 == update_storage_and_class_commitments(
                   updated.tx, tail, storage_commitment, class_commitment)
        tx3 == insert_state_update(tx2, cursor, state_update)
    IN  IF fault = "update_starknet_state"
        THEN MapFailed(store, cursor, "Updating Starknet state")
        ELSE IF state_commitment_ # header.state_commitment
        THEN MapFailed(store, cursor, "StateRootMismatch")
        ELSE IF fault = "update_storage_and_class_commitments"
        THEN MapFailed(store, cursor, "Updating storage commitment")
        ELSE IF fault = "insert_state_update"
        THEN MapFailed(store, cursor, "Inserting state update data")
        ELSE IF fault = "commit"
        THEN MapFailed(store, cursor, "Committing db transaction")
        ELSE [db |-> tx3, current_block |-> cursor + 1, result |-> MapOk(tail)]

\* mutant: a missing parent commitment is replaced by the default
UpdateStarknetState_map_default_parent(store, cursor, input, fault) ==
    LET header == block_header(store, cursor)
        parent == BlockNumber_parent(cursor)
    IN  IF fault = "transaction"
        THEN MapFailed(store, cursor, "Creating database transaction")
        ELSE IF fault = "block_header"
        THEN MapFailed(store, cursor, "Querying block header")
        ELSE IF header = None
        THEN MapFailed(store, cursor, "Block header not found")
        ELSE IF parent # None /\ fault = "state_commitment"
        THEN MapFailed(store, cursor, "Querying parent block header")
        ELSE map_update_and_commit(
                 store, cursor, header[1],
                 IF parent # None /\ state_commitment(store, parent[1]) # None
                 THEN state_commitment(store, parent[1])[1]
                 ELSE StateCommitment_default,
                 input, fault)

\* UpdateStarknetState::map
UpdateStarknetState_map(store, cursor, input, fault) ==
    LET tail == cursor
        header == block_header(store, tail)
        parent == BlockNumber_parent(cursor)
    IN  IF fault = "transaction"
        THEN MapFailed(store, cursor, "Creating database transaction")
        ELSE IF fault = "block_header"
        THEN MapFailed(store, cursor, "Querying block header")
        ELSE IF header = None
        THEN MapFailed(store, cursor, "Block header not found")
        ELSE IF parent # None /\ fault = "state_commitment"
        THEN MapFailed(store, cursor, "Querying parent block header")
        ELSE IF parent # None /\ state_commitment(store, parent[1]) = None
        THEN MapFailed(store, cursor, "Parent block header not found")
        ELSE map_update_and_commit(
                 store, cursor, header[1],
                 IF parent # None
                 THEN state_commitment(store, parent[1])[1]
                 ELSE StateCommitment_default,
                 input, fault)

\* the call was abandoned before it returned
MapAbandoned == [tag |-> "Abandoned", block |-> 0, err |-> "none"]

\* a write of the transaction: what is committed and what the transaction sees
TxWrite(committed, view) == [db |-> committed, view |-> view]

\* lines 175-182: update_starknet_state(&db, ...) writes the tries through
\* the transaction
map_update_starknet_state(committed, view, state_update) ==
    TxWrite(committed, update_starknet_state(view, state_update).tx)

\* lines 189-190: db.update_storage_and_class_commitments(...)
map_update_storage_and_class_commitments(committed, view, n, storage_commitment, class_commitment) ==
    TxWrite(committed,
            update_storage_and_class_commitments(view, n, storage_commitment, class_commitment))

\* mutant: the state update record is written outside the transaction
map_insert_state_update_autocommit(committed, view, n, state_update) ==
    TxWrite(insert_state_update(committed, n, state_update),
            insert_state_update(view, n, state_update))

\* lines 191-192: db.insert_state_update(...)
map_insert_state_update(committed, view, n, state_update) ==
    TxWrite(committed, insert_state_update(view, n, state_update))

(***************************************************************************)
(* The readers of the store: next_missing                                  *)
(*   The readers see, per block number, the row its state update left:     *)
(*   None, or Some(<<state diff length, state diff commitment>>).  A block *)
(*   number outside the table's domain has no row.                         *)
(***************************************************************************)
\* the largest `head` and block number of the next_missing model
MaxHead == 10

BlockNumber_GENESIS == 0

\* a store without any row
NoRows == <<>>

\* the row of block b, None without one
state_diff_row(rows, b) == IF b \in DOMAIN rows THEN rows[b] ELSE None

\* the largest member of a non-empty set of block numbers
MaxOf(S) == CHOOSE m \in S : \A n \in S : n <= m

\* Transaction::highest_block_with_state_update
highest_block_with_state_update(rows) ==
    LET with_update == {b \in DOMAIN rows : rows[b] # None}
    IN  IF with_update = {} THEN None ELSE Some(MaxOf(with_update))

\* bool::then_some
then_some(cond, value) == IF cond THEN Some(value) ELSE None

\* Result<Option<BlockNumber>> of next_missing
NmOk(opt) == [tag |-> "Ok", value |-> opt, err |-> "none"]
NmErr(e) == [tag |-> "Err", value |-> None, err |-> e]
NmNotCalled == [tag |-> "NotCalled", value |-> None, err |-> "none"]

\* the fallible operations of next_missing; "none": all of them succeed
NmFaults == {"none", "connection", "transaction", "highest_block_with_state_update", "join"}

\* mutant: the comparison with head is not strict
next_missing_non_strict(rows, head, fault) ==
    LET highest == highest_block_with_state_update(rows)
    IN  IF fault = "join"
        THEN NmErr("Joining blocking task")
        ELSE IF fault = "connection"
        THEN NmErr("Creating database connection")
        ELSE IF fault = "transaction"
        THEN NmErr("Creating database transaction")
        ELSE IF fault = "highest_block_with_state_update"
        THEN NmErr("Querying highest block with state update")
        ELSE IF highest = None
        THEN NmOk(then_some(head # BlockNumber_GENESIS, BlockNumber_GENESIS))
        ELSE NmOk(then_some(highest[1] <= head, highest[1] + 1))

\* next_missing(storage, head)
next_missing(rows, head, fault) ==
    LET highest == highest_block_with_state_update(rows)
    IN  IF fault = "join"
        THEN NmErr("Joining blocking task")
        ELSE IF fault = "connection"
        THEN NmErr("Creating database connection")
        ELSE IF fault = "transaction"
        THEN NmErr("Creating database transaction")
        ELSE IF fault = "highest_block_with_state_update"
        THEN NmErr("Querying highest block with state update")
        ELSE IF highest = None
        THEN NmOk(then_some(head # BlockNumber_GENESIS, BlockNumber_GENESIS))
        ELSE NmOk(then_some(highest[1] < head, highest[1] + 1))

(***************************************************************************)
(* The readers of the store: length_and_commitment_stream                  *)
(***************************************************************************)
\* the batch size `const BATCH_SIZE: usize` (1000 in the source), scaled down:
\* the stream depends on it only through BATCH_SIZE.min(stop - start + 1)
BATCH_SIZE == 3

\* the smaller and the larger of two numbers
Min(a, b) == IF a <= b THEN a ELSE b
Max(a, b) == IF a >= b THEN a ELSE b

\* the smallest member of a non-empty set of numbers
MinOf(S) == CHOOSE m \in S : \A n \in S : m <= n

\* Transaction::state_diff_lengths_and_commitments(start, max_num_blocks):
\* the rows of the consecutive blocks from `start` on, at most
\* max_num_blocks of them, up to the first block without a row
state_diff_lengths_and_commitments(rows, start, max_num_blocks) ==
    LET missing == {i \in 0..(max_num_blocks - 1) : state_diff_row(rows, start + i) = None}
        n == IF missing = {} THEN max_num_blocks ELSE MinOf(missing)
    IN  [i \in 1..n |-> state_diff_row(rows, start + i - 1)[1]]

\* mutant: every fetch asks for a full batch
stream_batch_size_full(start, stop) == BATCH_SIZE

\* lines 71-78: BATCH_SIZE.min(stop - start + 1)
stream_batch_size(start, stop) == Min(BATCH_SIZE, stop - start + 1)

\* the fallible operations of a batch fetch; "none": all of them succeed
FetchFaults == {"none", "connection", "transaction", "state_diff_lengths_and_commitments", "join"}

\* the error a failing operation of a batch fetch gives
FetchError(fault) ==
    CASE fault = "connection" -> "Creating database connection"
      [] fault = "transaction" -> "Creating database transaction"
      [] fault = "state_diff_lengths_and_commitments" -> "Querying state update counts"
      [] fault = "join" -> "Joining blocking task"

\* what a batch fetch asked for and got
Fetched(start, batch_size, remaining, buffered, got) ==
    [start |-> start, batch_size |-> batch_size, remaining |-> remaining,
     buffered |-> buffered, got |-> got]

NoFetch == Fetched(0, 0, 0, 0, 0)

(***************************************************************************)
(* Inputs of verify / verify2                                              *)
(***************************************************************************)
SeqsUpTo(S, n) == UNION {[1..k -> S] : k \in 0..n}

Calldatas == SeqsUpTo(FeltValues, MaxCalldataLen)

EntryPointTypes == {"None", "External", "L1Handler"}

\* a felt that is the hash of no transaction
UnrelatedHash == Atom(7)

\* the transactions, before their claimed hash is set
DeclareV0V1Bodies(variant) ==
    [variant : {variant}, class_hash : FeltValues, max_fee : FeltValues,
     nonce : FeltValues, sender_address : FeltValues,
     transaction_hash : {UnrelatedHash}]

DeclareV2Bodies ==
    [variant : {"DeclareV2"}, class_hash : FeltValues, max_fee : FeltValues,
     nonce : FeltValues, sender_address : FeltValues,
     compiled_class_hash : FeltValues, transaction_hash : {UnrelatedHash}]

DeployBodies ==
    [variant : {"Deploy"}, contract_address : FeltValues,
     contract_address_salt : FeltValues, constructor_calldata : Calldatas,
     version : FeltValues, transaction_hash : {UnrelatedHash}]

DeployAccountBodies ==
    [variant : {"DeployAccount"}, contract_address : FeltValues,
     max_fee : FeltValues, version : FeltValues, nonce : FeltValues,
     contract_address_salt : FeltValues, constructor_calldata : Calldatas,
     class_hash : FeltValues, transaction_hash : {UnrelatedHash}]

InvokeV0Bodies ==
    [variant : {"InvokeV0"}, calldata : Calldatas, sender_address : FeltValues,
     entry_point_selector : FeltValues, entry_point_type : EntryPointTypes,
     max_fee : FeltValues, transaction_hash : {UnrelatedHash}]

InvokeV1Bodies ==
    [variant : {"InvokeV1"}, calldata : Calldatas, sender_address : FeltValues,
     max_fee : FeltValues, nonce : FeltValues, transaction_hash : {UnrelatedHash}]

L1HandlerBodies ==
    [variant : {"L1Handler"}, contract_address : FeltValues,
     entry_point_selector : FeltValues, nonce : FeltValues, calldata : Calldatas,
     version : FeltValues, transaction_hash : {UnrelatedHash}]

TransactionBodies ==
    DeclareV0V1Bodies("DeclareV0") \cup DeclareV0V1Bodies("DeclareV1")
    \cup DeclareV2Bodies \cup DeployBodies \cup DeployAccountBodies
    \cup InvokeV0Bodies \cup InvokeV1Bodies \cup L1HandlerBodies

\* the hashes the primary and the legacy formula give a transaction under
\* chain id c (the legacy formula exists for Deploy, Invoke V0, L1Handler)
PrimaryHashOf(t, c) ==
    CASE t.variant = "Deploy"    -> deploy_primary_hash(t, c)
      [] t.variant = "InvokeV0"  -> invoke_v0_primary_hash(t, c)
      [] t.variant = "L1Handler" -> l1_handler_primary_hash(t, c)
      [] OTHER -> ComputedTransactionHash_hash(compute_transaction_hash(t, c))

HasLegacy(t) == t.variant \in {"Deploy", "InvokeV0", "L1Handler"}

LegacyHashOf(t, c) ==
    CASE t.variant = "Deploy"    -> deploy_legacy_hash(t, c)
      [] t.variant = "InvokeV0"  -> invoke_v0_legacy_hash(t, c)
      [] t.variant = "L1Handler" -> l1_handler_legacy_hash(t, c)

\* claimed hashes: what some formula gives under some chain id, or unrelated
ClaimedHashes(t) ==
    {UnrelatedHash}
    \cup {PrimaryHashOf(t, c) : c \in ChainIds}
    \cup (IF HasLegacy(t) THEN {LegacyHashOf(t, c) : c \in ChainIds} ELSE {})

Transactions ==
    UNION {{[t EXCEPT !.transaction_hash = h] : h \in ClaimedHashes(t)} :
           t \in TransactionBodies}

\* genesis and the two sides of the testnet2 chain-id boundary
BlockNumbers ==
    {0, TESTNET2_LAST_TESTNET_BLOCK, TESTNET2_LAST_TESTNET_BLOCK + 1}

NotComputed == Computed("NotComputed", None, "none")

\* the store of a node that has no block yet
EmptyStore ==
    [headers |-> [n \in Blocks |-> None],
     commitments |-> [n \in Blocks |-> None],
     state_updates |-> [n \in Blocks |-> None],
     tries |-> [storage |-> {}, class |-> {}]]

IdleStateUpdateData ==
    [contract_updates |-> {}, system_contract_updates |-> {},
     declared_cairo_classes |-> {}, declared_sierra_classes |-> {}]

\* the transaction hash functions are not in use
TxIdle ==
    /\ txn = [variant |-> "None"]
    /\ chain_id = None
    /\ block_number = 0
    /\ verify_chain = None
    /\ verify_result = NotCalled
    /\ verify2_chain = None
    /\ verify2_result = NotCalled
    /\ computed = NotComputed

\* the VerifyCommitment stage is not in use
VcIdle ==
    /\ vc_input = [expected_commitment |-> UnrelatedCommitment,
                   state_diff |-> IdleStateUpdateData, version |-> "none"]
    /\ vc_result = VcNotCalled

\* the locals of map before any of them is bound
NoLocals ==
    [header |-> None, parent_state_commitment |-> None, state_update |-> None,
     storage_commitment |-> None, class_commitment |-> None]

\* no map call is in progress: no transaction is open
StepIdle ==
    /\ map_pc = "idle"
    /\ tx_view = EmptyStore
    /\ map_locals = NoLocals

\* the UpdateStarknetState stage is not in use
StageIdle ==
    /\ db = EmptyStore
    /\ current_block = 0
    /\ start_block = 0
    /\ map_input = IdleStateUpdateData
    /\ map_fault = "none"
    /\ map_result = MapNotCalled
    /\ prev_db = EmptyStore
    /\ prev_block = 0
    /\ returned = <<>>
    /\ map_pc = "none"
    /\ tx_view = EmptyStore
    /\ map_locals = NoLocals

\* next_missing is not in use
MissingIdle ==
    /\ nm_head = 0
    /\ nm_fault = "none"
    /\ nm_result = NmNotCalled

\* no stream has been constructed
StreamIdle ==
    /\ stream_start = 0
    /\ stream_stop = 0
    /\ stream_batch = <<>>
    /\ stream_pc = "idle"
    /\ stream_error = "none"
    /\ stream_yielded = <<>>
    /\ stream_start0 = 0
    /\ stream_rows0 = NoRows
    /\ stream_fetch = NoFetch

\* the readers of the store are not in use
ReadersIdle ==
    /\ state_diffs = NoRows
    /\ MissingIdle
    /\ StreamIdle

TxInit ==
    /\ VcIdle /\ StageIdle /\ ReadersIdle
    /\ txn \in Transactions
    /\ chain_id \in ChainIds
    /\ block_number \in BlockNumbers
    /\ verify_chain = None
    /\ verify_result = NotCalled
    /\ verify2_chain = None
    /\ verify2_result = NotCalled
    /\ computed = NotComputed

\* verify(&txn, chain_id, block_number)
Verify ==
    /\ verify_result = NotCalled
    /\ verify_chain' = verify_chain_id(chain_id, block_number)
    /\ verify_result' = verify(txn, chain_id, block_number)
    /\ UNCHANGED <<txn, chain_id, block_number, verify2_chain, verify2_result, computed>>
    /\ UNCHANGED <<vcvars, stagevars, readvars>>

\* verify2(&txn, chain_id, block_number, txn_idx)
Verify2 ==
    /\ verify2_result = NotCalled
    /\ \E txn_idx \in 0..MaxTxnIdx :
         /\ verify2_chain' = verify2_chain_id(chain_id, block_number)
         /\ verify2_result' = verify2(txn, chain_id, block_number, txn_idx)
    /\ UNCHANGED <<txn, chain_id, block_number, verify_chain, verify_result, computed>>
    /\ UNCHANGED <<vcvars, stagevars, readvars>>

TxNext == Verify \/ Verify2

SpecTx == TxInit /\ [][TxNext]_vars

(***************************************************************************)
(* compute_transaction_hash on its own (SpecHash)                          *)
(***************************************************************************)
HashInit ==
    /\ VcIdle /\ StageIdle /\ ReadersIdle
    /\ txn \in Transactions
    /\ chain_id \in ChainIds
    /\ block_number = 0
    /\ verify_chain = None
    /\ verify_result = NotCalled
    /\ verify2_chain = None
    /\ verify2_result = NotCalled
    /\ computed = NotComputed

\* compute_transaction_hash(&txn, chain_id)
ComputeTransactionHash ==
    /\ computed = NotComputed
    /\ computed' = compute_transaction_hash(txn, chain_id)
    /\ UNCHANGED <<txn, chain_id, block_number, verify_chain, verify_result,
                   verify2_chain, verify2_result>>
    /\ UNCHANGED <<vcvars, stagevars, readvars>>

HashNext == ComputeTransactionHash

SpecHash == HashInit /\ [][HashNext]_vars

(***************************************************************************)
(* VerifyCommitment (SpecVc)                                               *)
(***************************************************************************)
VcInit ==
    /\ TxIdle /\ StageIdle /\ ReadersIdle
    /\ vc_input \in [expected_commitment : StateDiffCommitments,
                      state_diff : StateUpdateDatas,
                      version : StarknetVersions]
    /\ vc_result = VcNotCalled

\* VerifyCommitment.map((unverified, version))
VerifyCommitmentMap ==
    /\ vc_result = VcNotCalled
    /\ vc_result' = VerifyCommitment_map(vc_input)
    /\ UNCHANGED <<vc_input, txvars, stagevars, readvars>>

VcNext == VerifyCommitmentMap

SpecVc == VcInit /\ [][VcNext]_vars

(***************************************************************************)
(* UpdateStarknetState (SpecStage)                                         *)
(***************************************************************************)
\* the header table (BlockHeader: number, hash, state_commitment): any block
\* may lack its header
HeaderTables ==
    {[n \in Blocks |->
         IF choice[n] = None
         THEN None
         ELSE Some([number |-> n, hash |-> <<"block_hash", n>>,
                    state_commitment |-> choice[n][1]])] :
     choice \in [Blocks -> {None} \cup {Some(c) : c \in StateCommitments}]}

StageInit ==
    /\ TxIdle /\ VcIdle /\ ReadersIdle
    /\ \E headers \in HeaderTables, storage \in StorageCommitments,
          class \in ClassCommitments :
         db = [EmptyStore EXCEPT !.headers = headers,
                                 !.tries = [storage |-> storage, class |-> class]]
    /\ current_block \in Blocks
    /\ start_block = current_block
    /\ map_input = IdleStateUpdateData
    /\ map_fault = "none"
    /\ map_result = MapNotCalled
    /\ prev_db = db
    /\ prev_block = current_block
    /\ returned = <<>>
    /\ StepIdle

\* stage.map(state_update), with the storage operation `fault` failing
Map ==
    \E input \in StateUpdateDatas, fault \in Faults :
        LET r == UpdateStarknetState_map(db, current_block, input, fault)
        IN  /\ db' = r.db
            /\ current_block' = r.current_block
            /\ map_input' = input
            /\ map_fault' = fault
            /\ map_result' = r.result
            /\ prev_db' = db
            /\ prev_block' = current_block
            /\ returned' = IF r.result.tag = "Ok"
                           THEN Append(returned, r.result.block)
                           ELSE returned
            /\ UNCHANGED <<start_block, stepvars, txvars, vcvars, readvars>>

StageNext == Map

SpecStage == StageInit /\ [][StageNext]_vars

(***************************************************************************)
(* UpdateStarknetState::map, one storage operation at a time (SpecAtomic)  *)
(*   db is what is committed; tx_view is what the transaction opened at    *)
(*   line 147 sees.  A write goes to tx_view, commit at line 193 makes     *)
(*   tx_view the committed store, and a transaction dropped before that    *)
(*   (an error return, or the call abandoned) is discarded.                *)
(***************************************************************************)
StageStepsInit ==
    /\ TxIdle /\ VcIdle /\ ReadersIdle
    /\ \E headers \in HeaderTables : db = [EmptyStore EXCEPT !.headers = headers]
    /\ current_block \in Blocks
    /\ start_block = current_block
    /\ map_input = IdleStateUpdateData
    /\ map_fault = "none"
    /\ map_result = MapNotCalled
    /\ prev_db = db
    /\ prev_block = current_block
    /\ returned = <<>>
    /\ StepIdle

\* what no step of map changes
StepFrame == UNCHANGED <<start_block, map_input, prev_db, prev_block, txvars, vcvars, readvars>>

\* an error return: the transaction is dropped
MapReturnsErr(fault, e) ==
    /\ map_pc' = "idle"
    /\ tx_view' = EmptyStore
    /\ map_locals' = NoLocals
    /\ map_fault' = fault
    /\ map_result' = MapErr(e)
    /\ UNCHANGED <<db, current_block, returned>>

\* the step succeeded: on to the operation `next`
MapGoesOn(next, view, locals) ==
    /\ map_pc' = next
    /\ tx_view' = view
    /\ map_locals' = locals
    /\ UNCHANGED <<current_block, returned, map_fault, map_result>>

\* lines 147-152: stage.map(state_update) is called, the transaction opens
MapBegin ==
    /\ map_pc = "idle"
    /\ \E input \in StateUpdateDatas, failing \in BOOLEAN :
         /\ map_input' = input
         /\ prev_db' = db
         /\ prev_block' = current_block
         /\ IF failing
            THEN MapReturnsErr("transaction", "Creating database transaction")
            ELSE /\ map_pc' = "block_header"
                 /\ tx_view' = db
                 /\ map_locals' = NoLocals
                 /\ map_fault' = "none"
                 /\ map_result' = MapNotCalled
                 /\ UNCHANGED <<db, current_block, returned>>
    /\ UNCHANGED <<start_block, txvars, vcvars, readvars>>

\* lines 154-157
MapBlockHeader ==
    /\ map_pc = "block_header"
    /\ \E failing \in BOOLEAN :
         LET header == block_header(tx_view, current_block)
         IN  IF failing
             THEN MapReturnsErr("block_header", "Querying block header")
             ELSE IF header = None
             THEN MapReturnsErr("none", "Block header not found")
             ELSE /\ MapGoesOn("state_commitment", tx_view,
                               [map_locals EXCEPT !.header = header])
                  /\ UNCHANGED db
    /\ StepFrame

\* lines 158-164
MapParentStateCommitment ==
    /\ map_pc = "state_commitment"
    /\ \E failing \in BOOLEAN :
         LET parent == BlockNumber_parent(current_block)
         IN  IF parent = None
             THEN /\ MapGoesOn("update_starknet_state", tx_view,
                               [map_locals EXCEPT !.parent_state_commitment =
                                                       Some(StateCommitment_default)])
                  /\ UNCHANGED db
             ELSE IF failing
             THEN MapReturnsErr("state_commitment", "Querying parent block header")
             ELSE IF state_commitment(tx_view, parent[1]) = None
             THEN MapReturnsErr("none", "Parent block header not found")
             ELSE /\ MapGoesOn("update_starknet_state", tx_view,
                               [map_locals EXCEPT !.parent_state_commitment =
                                                       state_commitment(tx_view, parent[1])])
                  /\ UNCHANGED db
    /\ StepFrame

\* lines 165-182
MapUpdateStarknetState ==
    /\ map_pc = "update_starknet_state"
    /\ \E failing \in BOOLEAN :
         LET state_update == StateUpdate_new(map_locals.header[1],
                                             map_locals.parent_state_commitment[1], map_input)
             updated == update_starknet_state(tx_view, state_update)
             written == map_update_starknet_state(db, tx_view, state_update)
         IN  IF failing
             THEN MapReturnsErr("update_starknet_state", "Updating Starknet state")
             ELSE /\ MapGoesOn("compare", written.view,
                               [map_locals EXCEPT
                                   !.state_update = Some(state_update),
                                   !.storage_commitment = Some(updated.storage_commitment),
                                   !.class_commitment = Some(updated.class_commitment)])
                  /\ db' = written.db
    /\ StepFrame

\* lines 183-187
MapCompare ==
    /\ map_pc = "compare"
    /\ LET state_commitment_ == StateCommitment_calculate(
                                    map_locals.storage_commitment[1],
                                    map_locals.class_commitment[1])
       IN  IF state_commitment_ # map_locals.header[1].state_commitment
           THEN MapReturnsErr("none", "StateRootMismatch")
           ELSE /\ MapGoesOn("update_storage_and_class_commitments", tx_view, map_locals)
                /\ UNCHANGED db
    /\ StepFrame

\* lines 189-190
MapUpdateCommitments ==
    /\ map_pc = "update_storage_and_class_commitments"
    /\ \E failing \in BOOLEAN :
         LET written == map_update_storage_and_class_commitments(
                            db, tx_view, current_block,
                            map_locals.storage_commitment[1], map_locals.class_commitment[1])
         IN  IF failing
             THEN MapReturnsErr("update_storage_and_class_commitments",
                                "Updating storage commitment")
             ELSE /\ MapGoesOn("insert_state_update", written.view, map_locals)
                  /\ db' = written.db
    /\ StepFrame

\* lines 191-192
MapInsertStateUpdate ==
    /\ map_pc = "insert_state_update"
    /\ \E failing \in BOOLEAN :
         LET written == map_insert_state_update(db, tx_view, current_block,
                                                map_locals.state_update[1])
         IN  IF failing
             THEN MapReturnsErr("insert_state_update", "Inserting state update data")
             ELSE /\ MapGoesOn("commit", written.view, map_locals)
                  /\ db' = written.db
    /\ StepFrame

\* lines 193-197: commit, advance the cursor, return the block number
MapCommit ==
    /\ map_pc = "commit"
    /\ \E failing \in BOOLEAN :
         IF failing
         THEN MapReturnsErr("commit", "Committing db transaction")
         ELSE /\ db' = tx_view
              /\ current_block' = current_block + 1
              /\ map_result' = MapOk(current_block)
              /\ returned' = Append(returned, current_block)
              /\ map_pc' = "idle"
              /\ tx_view' = EmptyStore
              /\ map_locals' = NoLocals
              /\ UNCHANGED map_fault
    /\ StepFrame

\* the call is abandoned before the commit: the transaction is dropped;
\* map_fault records the operation the call was about to run
MapAbandon ==
    /\ map_pc \notin {"none", "idle"}
    /\ map_pc' = "idle"
    /\ tx_view' = EmptyStore
    /\ map_locals' = NoLocals
    /\ map_fault' = map_pc
    /\ map_result' = MapAbandoned
    /\ UNCHANGED <<db, current_block, returned>>
    /\ StepFrame

(***************************************************************************)
(* next_missing (SpecMissing)                                              *)
(***************************************************************************)
\* the row a state update of block b leaves
RowOf(b) == Some(<<b % 3, <<"state_diff_commitment", b>>>>)

\* the tables in which exactly the blocks of `present` have a row
RowsOf(domain, present) == [b \in domain |-> IF b \in present THEN RowOf(b) ELSE None]

MissingInit ==
    /\ TxIdle /\ VcIdle /\ StageIdle
    /\ StreamIdle
    /\ \E present \in SUBSET (0..MaxHead) : state_diffs = RowsOf(0..MaxHead, present)
    /\ nm_head \in 0..MaxHead
    /\ nm_fault = "none"
    /\ nm_result = NmNotCalled

\* next_missing(storage, head), with the operation `fault` failing
NextMissing ==
    /\ nm_result = NmNotCalled
    /\ \E fault \in NmFaults :
         /\ nm_fault' = fault
         /\ nm_result' = next_missing(state_diffs, nm_head, fault)
    /\ UNCHANGED <<state_diffs, nm_head, streamvars, txvars, vcvars, stagevars>>

MissingNext == NextMissing

SpecMissing == MissingInit /\ [][MissingNext]_vars

(***************************************************************************)
(* length_and_commitment_stream (SpecStream)                               *)
(*   The generator is suspended while a batch fetch runs on the blocking   *)
(*   pool and after every item it yields; the caller may drop it there.    *)
(***************************************************************************)
\* the rows the store may have past `stop`
RowsPastStop == 1

\* (start, stop): empty ranges and ranges of up to two batches and one block
StreamRanges ==
    {<<1, 0>>, <<100, 99>>, <<100, 0>>}
       \cup {<<s, s + n - 1>> : s \in {0, 100}, n \in 1..(2 * BATCH_SIZE + 1)}

StreamInit ==
    /\ TxIdle /\ VcIdle /\ StageIdle /\ MissingIdle
    /\ \E range \in StreamRanges :
         LET blocks == range[1]..(Max(range[1], range[2]) + RowsPastStop)
         IN  /\ stream_start = range[1]
             /\ stream_stop = range[2]
             /\ \E present \in SUBSET blocks : state_diffs = RowsOf(blocks, present)
    /\ stream_batch = <<>>
    /\ stream_pc = "running"
    /\ stream_error = "none"
    /\ stream_yielded = <<>>
    /\ stream_start0 = stream_start
    /\ stream_rows0 = state_diffs
    /\ stream_fetch = NoFetch

\* mutant: an empty batch is not an error, the block is skipped
StreamFetch_skip_gap ==
    /\ stream_pc = "running"
    /\ stream_start <= stream_stop
    /\ stream_batch = <<>>
    /\ \E fault \in FetchFaults :
         LET batch_size == stream_batch_size(stream_start, stream_stop)
             batch == state_diff_lengths_and_commitments(state_diffs, stream_start, batch_size)
             remaining == stream_stop - stream_start + 1
         IN  IF fault # "none"
             THEN /\ stream_pc' = "failed"
                  /\ stream_error' = FetchError(fault)
                  /\ stream_fetch' = Fetched(stream_start, batch_size, remaining,
                                             Len(stream_batch), 0)
                  /\ UNCHANGED <<stream_start, stream_batch>>
             ELSE /\ stream_batch' = batch
                  /\ stream_fetch' = Fetched(stream_start, batch_size, remaining,
                                             Len(stream_batch), Len(batch))
                  /\ stream_start' = stream_start + Max(1, Len(batch))
                  /\ UNCHANGED <<stream_pc, stream_error>>
    /\ UNCHANGED <<stream_stop, stream_yielded, stream_start0, stream_rows0>>
    /\ UNCHANGED <<state_diffs, missingvars, txvars, vcvars, stagevars>>

\* lines 71-99: the buffer is empty and blocks remain, a batch is fetched
StreamFetch ==
    /\ stream_pc = "running"
    /\ stream_start <= stream_stop
    /\ stream_batch = <<>>
    /\ \E fault \in FetchFaults :
         LET batch_size == stream_batch_size(stream_start, stream_stop)
             batch == state_diff_lengths_and_commitments(state_diffs, stream_start, batch_size)
             remaining == stream_stop - stream_start + 1
         IN  IF fault # "none"
             THEN /\ stream_pc' = "failed"
                  /\ stream_error' = FetchError(fault)
                  /\ stream_fetch' = Fetched(stream_start, batch_size, remaining,
                                             Len(stream_batch), 0)
                  /\ UNCHANGED <<stream_start, stream_batch>>
             ELSE /\ stream_batch' = batch
                  /\ stream_fetch' = Fetched(stream_start, batch_size, remaining,
                                             Len(stream_batch), Len(batch))
                  /\ IF batch = <<>>
                     THEN /\ stream_pc' = "failed"
                          /\ stream_error' = "No state update counts found"
                          /\ UNCHANGED stream_start
                     ELSE /\ stream_start' = stream_start + Len(batch)
                          /\ UNCHANGED <<stream_pc, stream_error>>
    /\ UNCHANGED <<stream_stop, stream_yielded, stream_start0, stream_rows0>>
    /\ UNCHANGED <<state_diffs, missingvars, txvars, vcvars, stagevars>>

\* lines 66-69: blocks remain and the buffer has an item, it is yielded
StreamYield ==
    /\ stream_pc = "running"
    /\ stream_start <= stream_stop
    /\ stream_batch # <<>>
    /\ stream_yielded' = Append(stream_yielded, Head(stream_batch))
    /\ stream_batch' = Tail(stream_batch)
    /\ UNCHANGED <<stream_start, stream_stop, stream_pc, stream_error, stream_start0, stream_rows0,
                   stream_fetch>>
    /\ UNCHANGED <<state_diffs, missingvars, txvars, vcvars, stagevars>>

\* mutant: past `stop`, the rest of the buffer is dropped
StreamDrain_dropped ==
    /\ stream_pc = "running"
    /\ stream_start > stream_stop
    /\ stream_batch # <<>>
    /\ stream_batch' = <<>>
    /\ UNCHANGED <<stream_start, stream_stop, stream_pc, stream_error, stream_start0, stream_rows0,
                   stream_fetch, stream_yielded>>
    /\ UNCHANGED <<state_diffs, missingvars, txvars, vcvars, stagevars>>

\* lines 102-104: past `stop`, the rest of the buffer is yielded
StreamDrain ==
    /\ stream_pc = "running"
    /\ stream_start > stream_stop
    /\ stream_batch # <<>>
    /\ stream_yielded' = Append(stream_yielded, Head(stream_batch))
    /\ stream_batch' = Tail(stream_batch)
    /\ UNCHANGED <<stream_start, stream_stop, stream_pc, stream_error, stream_start0, stream_rows0,
                   stream_fetch>>
    /\ UNCHANGED <<state_diffs, missingvars, txvars, vcvars, stagevars>>

\* line 105: past `stop` with an empty buffer, the stream ends
StreamEnd ==
    /\ stream_pc = "running"
    /\ stream_start > stream_stop
    /\ stream_batch = <<>>
    /\ stream_pc' = "done"
    /\ UNCHANGED <<stream_start, stream_stop, stream_batch, stream_error, stream_yielded,
                   stream_start0, stream_rows0, stream_fetch>>
    /\ UNCHANGED <<state_diffs, missingvars, txvars, vcvars, stagevars>>

\* the caller drops the stream
StreamAbandon ==
    /\ stream_pc = "running"
    /\ stream_pc' = "abandoned"
    /\ UNCHANGED <<stream_start, stream_stop, stream_batch, stream_error, stream_yielded,
                   stream_start0, stream_rows0, stream_fetch>>
    /\ UNCHANGED <<state_diffs, missingvars, txvars, vcvars, stagevars>>

StreamNext == StreamFetch \/ StreamYield \/ StreamDrain \/ StreamEnd \/ StreamAbandon

SpecStream == StreamInit /\ [][StreamNext]_vars

(***************************************************************************)
(* Abandoning a stage call or a stream (SpecAtomic)                        *)
(***************************************************************************)
\* either a stage runs against the store or a stream reads it
AtomicInit == StageStepsInit \/ StreamInit

AtomicNext ==
    \/ StreamFetch
    \/ StreamYield
    \/ StreamDrain
    \/ StreamEnd
    \/ StreamAbandon
    \/ MapBegin
    \/ MapBlockHeader
    \/ MapParentStateCommitment
    \/ MapUpdateStarknetState
    \/ MapCompare
    \/ MapUpdateCommitments
    \/ MapInsertStateUpdate
    \/ MapCommit
    \/ MapAbandon

SpecAtomic == AtomicInit /\ [][AtomicNext]_vars

(***************************************************************************)
(* Properties of verify / verify2 / compute_transaction_hash (SpecTx)      *)
(***************************************************************************)
VerifyCalled == verify_result # NotCalled
Verify2Called == verify2_result # NotCalled

\* Invoke V0 whose entry_point_type is Some(L1Handler)
FlaggedL1Handler(t) == t.variant = "InvokeV0" /\ t.entry_point_type = "L1Handler"

\* C1: the chain id verify and verify2 hash under is TESTNET when the
\* argument is TESTNET2 and block_number <= 21086, and the argument itself
\* in every other case.
C1_ChainIdResolution ==
    LET expected == IF chain_id = ChainId_TESTNET2 /\ block_number <= 21086
                    THEN ChainId_TESTNET
                    ELSE chain_id
    IN  /\ VerifyCalled => verify_chain = expected
        /\ Verify2Called => verify2_chain = expected
        /\ (chain_id # ChainId_TESTNET2 \/ block_number >= 21087) =>
              /\ VerifyCalled => verify_chain = chain_id
              /\ Verify2Called => verify2_chain = chain_id

\* both entry points ran on TESTNET2 at the boundary block 21086 and hashed
\* under TESTNET
C1_Witness ==
    /\ VerifyCalled /\ Verify2Called
    /\ chain_id = ChainId_TESTNET2 /\ block_number = 21086
    /\ verify_chain = ChainId_TESTNET /\ verify2_chain = ChainId_TESTNET

C3_MismatchIsError ==
    (VerifyCalled /\ ~FlaggedL1Handler(txn)) =>
       LET h == ComputedTransactionHash_hash(compute_transaction_hash(txn, verify_chain))
           hashed_under(c) ==
               \/ Transaction_hash(txn) = PrimaryHashOf(txn, c)
               \/ HasLegacy(txn) /\ Transaction_hash(txn) = LegacyHashOf(txn, c)
       IN  /\ h # Transaction_hash(txn) =>
                verify_result = VerifyErr(Transaction_hash(txn), h)
           /\ h = Transaction_hash(txn) => verify_result = Ok(FALSE)
           /\ verify_result.tag = "Err" => verify_result.computed # verify_result.expected
           /\ \A c \in ChainIds :
                (hashed_under(c) /\ c # verify_chain) => verify_result.tag = "Err"

\* a transaction hashed under MAINNET failed verification under TESTNET
C3_Witness ==
    /\ VerifyCalled
    /\ ~FlaggedL1Handler(txn)
    /\ Transaction_hash(txn) = PrimaryHashOf(txn, ChainId_MAINNET)
    /\ verify_chain = ChainId_TESTNET
    /\ verify_result.tag = "Err"

\* C4: on the same input verify and verify2 hash under the same chain id,
\* skip the same transactions, and otherwise verify2 errs exactly when
\* verify returns Ok(false) and returns Ok(false) exactly when verify errs.
C4_Verify2InvertsEquality ==
    (VerifyCalled /\ Verify2Called) =>
       /\ verify_chain = verify2_chain
       /\ (verify_result = Ok(TRUE)) <=> (verify2_result = Ok(TRUE))
       /\ (verify2_result.tag = "Err") <=> (verify_result = Ok(FALSE))
       /\ (verify2_result = Ok(FALSE)) <=> (verify_result.tag = "Err")

\* verify accepted a transaction on TESTNET2 at block 21086 and verify2
\* reported it as an error
C4_Witness ==
    /\ chain_id = ChainId_TESTNET2 /\ block_number = 21086
    /\ verify_result = Ok(FALSE)
    /\ verify2_result.tag = "Err"

FieldValues(t, f) ==
    CASE f = "variant" -> {t.variant}
      [] f = "transaction_hash" -> ClaimedHashes(t)
      [] f \in {"calldata", "constructor_calldata"} -> Calldatas
      [] f = "entry_point_type" -> EntryPointTypes
      [] OTHER -> FeltValues

\* the transactions that differ from t in at most one field
OneFieldVariants(t) ==
    UNION {{[t EXCEPT ![f] = v] : v \in FieldValues(t, f)} : f \in DOMAIN t}

SameKindAndVersion(t1, t2) ==
    TxnKind(t1) = TxnKind(t2) /\ TxnVersion(t1) = TxnVersion(t2)

FormulaOf(t, c) == compute_transaction_hash(t, c).formula

\* C6 as stated: two transactions of the same kind and version get the same
\* formula, whatever their other fields.
C6_FormulaDependsOnKindVersionOnly ==
    computed # NotComputed =>
       \A t2 \in OneFieldVariants(txn) :
          SameKindAndVersion(txn, t2) => FormulaOf(t2, chain_id) = computed.formula

\* C6 amended: the formula is fixed by kind and version, the Invoke V0
\* L1Handler flag and, for Deploy, Invoke V0 and L1Handler, whether the
\* primary hash equals the claimed hash; the kinds without a fallback always
\* use the primary formula.
C6_FormulaSelection ==
    computed # NotComputed =>
       /\ ~HasLegacy(txn) => computed.formula = "primary"
       /\ FlaggedL1Handler(txn) <=> computed.formula = "none"
       /\ (HasLegacy(txn) /\ ~FlaggedL1Handler(txn)) =>
             /\ computed.formula = "primary"
                   <=> PrimaryHashOf(txn, chain_id) = Transaction_hash(txn)
             /\ computed.formula = "legacy"
                   <=> PrimaryHashOf(txn, chain_id) # Transaction_hash(txn)
       /\ \A t2 \in OneFieldVariants(txn) :
            ( /\ SameKindAndVersion(txn, t2)
              /\ FlaggedL1Handler(t2) <=> FlaggedL1Handler(txn)
              /\ (PrimaryHashOf(t2, chain_id) = Transaction_hash(t2))
                   <=> (PrimaryHashOf(txn, chain_id) = Transaction_hash(txn)) )
            => FormulaOf(t2, chain_id) = computed.formula

\* a Deploy whose claimed hash the primary formula gives, while the same
\* Deploy with another claimed hash takes the legacy formula
C6_Witness ==
    /\ txn.variant = "Deploy"
    /\ computed.formula = "primary"
    /\ computed.h = Transaction_hash(txn)
    /\ \E t2 \in OneFieldVariants(txn) :
         SameKindAndVersion(txn, t2) /\ FormulaOf(t2, chain_id) = "legacy"

\* the accumulator over an ordered list of field elements
Accumulate(fields) == HashChain_finalize(HashChain_fold(HashChain_default, fields))

\* the ordered fields of the primary formula, per kind and version
PrimaryFields(t, chain) ==
    CASE t.variant = "DeclareV0" ->
           <<Felt_from_be_slice("declare"), Atom(0), t.sender_address, Felt_ZERO,
             Accumulate(<<>>), Felt_ZERO, chain, t.class_hash>>
      [] t.variant = "DeclareV1" ->
           <<Felt_from_be_slice("declare"), Atom(1), t.sender_address, Felt_ZERO,
             Accumulate(<<t.class_hash>>), t.max_fee, chain, t.nonce>>
      [] t.variant = "DeclareV2" ->
           <<Felt_from_be_slice("declare"), Atom(2), t.sender_address, Felt_ZERO,
             Accumulate(<<t.class_hash>>), t.max_fee, chain, t.nonce,
             t.compiled_class_hash>>
      [] t.variant = "Deploy" ->
           <<Felt_from_be_slice("deploy"), t.version, t.contract_address, CONSTRUCTOR,
             Accumulate(t.constructor_calldata), Felt_ZERO, chain>>
      [] t.variant = "DeployAccount" ->
           <<Felt_from_be_slice("deploy_account"), t.version, t.contract_address, Felt_ZERO,
             Accumulate(<<t.class_hash, t.contract_address_salt>> \o t.constructor_calldata),
             t.max_fee, chain, t.nonce>>
      [] t.variant = "InvokeV0" ->
           <<Felt_from_be_slice("invoke"), Atom(0), t.sender_address,
             t.entry_point_selector, Accumulate(t.calldata), t.max_fee, chain>>
      [] t.variant = "InvokeV1" ->
           <<Felt_from_be_slice("invoke"), Atom(1), t.sender_address, Felt_ZERO,
             Accumulate(t.calldata), t.max_fee, chain, t.nonce>>
      [] t.variant = "L1Handler" ->
           <<Felt_from_be_slice("l1_handler"), t.version, t.contract_address,
             t.entry_point_selector, Accumulate(t.calldata), Felt_ZERO, chain, t.nonce>>

\* the number of fields of the primary formula: seven, the trailing nonce
\* or class hash, and the compiled class hash of Declare V2
PrimaryFieldCount(t) ==
    CASE t.variant \in {"Deploy", "InvokeV0"} -> 7
      [] t.variant = "DeclareV2" -> 9
      [] OTHER -> 8

\* the number of field elements the accumulator of hash h was fed
FieldsFed(h) == h[2][1]

LegacyFields(t, chain) ==
    CASE t.variant = "Deploy" ->
           <<Felt_from_be_slice("deploy"), t.contract_address, CONSTRUCTOR,
             Accumulate(t.constructor_calldata), chain>>
      [] t.variant = "InvokeV0" ->
           <<Felt_from_be_slice("invoke"), t.sender_address, t.entry_point_selector,
             Accumulate(t.calldata), chain>>
      [] t.variant = "L1Handler" ->
           <<Felt_from_be_slice("invoke"), t.contract_address, t.entry_point_selector,
             Accumulate(t.calldata), chain>>

\* C19: the fallback hash is the accumulator over exactly the five fields
\* prefix, address, selector, list hash and chain id, in this order, with
\* the address, selector and list hash of the primary attempt and without
\* version, fee or trailing field; the prefix is "deploy" for Deploy and
\* "invoke" for Invoke V0 and for L1Handler.
C19_LegacyFormulaFields ==
    (computed # NotComputed /\ HasLegacy(txn) /\ ~FlaggedL1Handler(txn)) =>
       LET legacy == LegacyFields(txn, chain_id)
           primary == PrimaryFields(txn, chain_id)
       IN  /\ LegacyHashOf(txn, chain_id) = Accumulate(legacy)
           /\ FieldsFed(LegacyHashOf(txn, chain_id)) = 5
           /\ legacy = <<legacy[1], primary[3], primary[4], primary[5], primary[7]>>
           /\ legacy[1] = IF txn.variant = "Deploy"
                          THEN Felt_from_be_slice("deploy")
                          ELSE Felt_from_be_slice("invoke")
           /\ legacy[1] # Felt_from_be_slice("l1_handler")
           /\ computed.formula = "legacy" =>
                /\ computed.h = Accumulate(legacy)
                /\ FieldsFed(computed.h) = 5
                /\ computed.h # Accumulate(primary)

\* an L1Handler whose claimed hash the legacy formula with the "invoke"
\* prefix gives
C19_Witness ==
    /\ txn.variant = "L1Handler"
    /\ computed.formula = "legacy"
    /\ computed.h = Transaction_hash(txn)
    /\ computed.h = Accumulate(LegacyFields(txn, chain_id))

(***************************************************************************)
(* Properties of VerifyCommitment (SpecVc)                                 *)
(***************************************************************************)
\* C7: if the commitment recomputed from state_diff under the version equals
\* expected_commitment the output is the input state_diff, unchanged;
\* otherwise the result is StateDiffCommitmentMismatch and carries no diff.
C7_VerifyCommitment ==
    vc_result # VcNotCalled =>
       LET actual == compute_state_diff_commitment(vc_input.state_diff, vc_input.version)
       IN  /\ actual = vc_input.expected_commitment =>
                vc_result = [tag |-> "Ok", diff |-> <<vc_input.state_diff>>, err |-> "none"]
           /\ actual # vc_input.expected_commitment =>
                /\ vc_result.tag = "Err"
                /\ vc_result.err = "StateDiffCommitmentMismatch"
                /\ vc_result.diff = <<>>

\* a diff declared with the commitment of another diff of the same version
\* was rejected
C7_Witness ==
    /\ vc_result.tag = "Err"
    /\ \E d \in StateUpdateDatas :
         /\ d # vc_input.state_diff
         /\ vc_input.expected_commitment
               = compute_state_diff_commitment(d, vc_input.version)

(***************************************************************************)
(* Properties of UpdateStarknetState (SpecStage)                           *)
(***************************************************************************)
MapCalled == map_result # MapNotCalled

\* the roots the tries of the store before the call have after the input
RootsAfter(store, input) ==
    LET u == update_starknet_state(store, input)
    IN  StateCommitment_calculate(u.storage_commitment, u.class_commitment)

\* C8: a successful call with cursor N returns N, leaves the state update
\* and the trie-root commitments of block N committed and advances the
\* cursor by one; the successful return values are the consecutive block
\* numbers from the initial cursor on, so no block is processed twice.
C8_SuccessAdvancesCursor ==
    /\ map_result.tag = "Ok" =>
         LET header == block_header(prev_db, prev_block)[1]
             su == db.state_updates[prev_block]
             roots == db.commitments[prev_block]
         IN  /\ map_result.block = prev_block
             /\ current_block = prev_block + 1
             /\ su # None
             /\ su[1].block_hash = header.hash
             /\ su[1].state_commitment = header.state_commitment
             /\ su[1].contract_updates = map_input.contract_updates
             /\ su[1].system_contract_updates = map_input.system_contract_updates
             /\ su[1].declared_cairo_classes = map_input.declared_cairo_classes
             /\ su[1].declared_sierra_classes = map_input.declared_sierra_classes
             /\ roots # None
             /\ StateCommitment_calculate(roots[1].storage_commitment,
                                          roots[1].class_commitment)
                   = header.state_commitment
             /\ roots[1].storage_commitment = db.tries.storage
             /\ roots[1].class_commitment = db.tries.class
    /\ map_result.tag = "Err" => current_block = prev_block
    /\ Len(returned) = current_block - start_block
    /\ \A i \in 1..Len(returned) : returned[i] = start_block + i - 1

\* two calls in a row succeeded
C8_Witness ==
    /\ map_result.tag = "Ok"
    /\ Len(returned) = 2

\* C9: when the state commitment combined from the recomputed roots differs
\* from the declared one of the cursor block's header, the call returns
\* StateRootMismatch and leaves the committed store and the cursor as they
\* were.
C9_RootMismatchWritesNothing ==
    MapCalled =>
       LET header == block_header(prev_db, prev_block)
           compared ==
               /\ map_fault \notin {"transaction", "block_header", "update_starknet_state"}
               /\ header # None
               /\ prev_block # 0 =>
                     /\ map_fault # "state_commitment"
                     /\ state_commitment(prev_db, prev_block - 1) # None
       IN  /\ (compared /\ RootsAfter(prev_db, map_input) # header[1].state_commitment) =>
                /\ map_result = MapErr("StateRootMismatch")
                /\ db = prev_db
                /\ current_block = prev_block
           /\ map_result.err = "StateRootMismatch" =>
                /\ db = prev_db
                /\ current_block = prev_block
                /\ RootsAfter(prev_db, map_input) # header[1].state_commitment

\* a block was committed and the next call then failed with a root mismatch
C9_Witness ==
    /\ map_result.err = "StateRootMismatch"
    /\ Len(returned) = 1
    /\ db.state_updates[start_block] # None

\* C10: without a header for the cursor block, or past genesis without the
\* parent's state commitment, the call fails, writes nothing and leaves the
\* cursor; at genesis no parent is looked up and the parent state commitment
\* is the default.
C10_MissingHeaderOrParentFails ==
    MapCalled =>
       LET header == block_header(prev_db, prev_block)
           no_parent == prev_block # 0 /\ state_commitment(prev_db, prev_block - 1) = None
       IN  /\ header = None =>
                /\ map_result.tag = "Err"
                /\ db = prev_db /\ current_block = prev_block
                /\ map_fault = "none" => map_result.err = "Block header not found"
           /\ (header # None /\ no_parent) =>
                /\ map_result.tag = "Err"
                /\ db = prev_db /\ current_block = prev_block
                /\ map_fault = "none" => map_result.err = "Parent block header not found"
           /\ (prev_block = 0 /\ map_result.tag = "Ok") =>
                db.state_updates[0][1].parent_state_commitment = StateCommitment_default
           /\ (prev_block # 0 /\ map_result.tag = "Ok") =>
                Some(db.state_updates[prev_block][1].parent_state_commitment)
                   = state_commitment(prev_db, prev_block - 1)
           /\ ( /\ prev_block = 0 /\ map_fault = "state_commitment" /\ header # None
                /\ RootsAfter(prev_db, map_input) = header[1].state_commitment )
              => map_result = MapOk(0)

\* past genesis, with the header of the cursor block but none of its parent
C10_Witness ==
    /\ MapCalled
    /\ prev_block > 0
    /\ block_header(prev_db, prev_block) # None
    /\ state_commitment(prev_db, prev_block - 1) = None
    /\ map_fault = "none"
    /\ map_result = MapErr("Parent block header not found")

\* the block has both its state update record and its trie-root commitments,
\* and the roots combine to the state commitment its header declares
CommittedBlock(store, b) ==
    /\ store.headers[b] # None
    /\ store.state_updates[b] # None
    /\ store.commitments[b] # None
    /\ StateCommitment_calculate(store.commitments[b][1].storage_commitment,
                                 store.commitments[b][1].class_commitment)
          = store.headers[b][1].state_commitment

\* the block has neither a state update record nor trie-root commitments
UnwrittenBlock(store, b) ==
    /\ store.state_updates[b] = None
    /\ store.commitments[b] = None

\* C11: over any sequence of map calls, failing ones (a failing commit
\* included) leave the store and the cursor as they were, only a successful
\* call changes the store and it advances the cursor by one; so every block
\* from the initial cursor up to the cursor is committed with roots that
\* combine to its header's state commitment, and no block at or past the
\* cursor has been written.
C11_CursorBoundsCommittedBlocks ==
    /\ start_block <= current_block
    /\ \A b \in Blocks :
         /\ (start_block <= b /\ b < current_block) => CommittedBlock(db, b)
         /\ b >= current_block => UnwrittenBlock(db, b)
    /\ db.headers = prev_db.headers
    /\ map_result.tag = "Err" => (db = prev_db /\ current_block = prev_block)
    /\ db # prev_db => (map_result.tag = "Ok" /\ current_block = prev_block + 1)
    /\ current_block # prev_block =>
         /\ map_result.tag = "Ok"
         /\ current_block = prev_block + 1
         /\ UnwrittenBlock(prev_db, prev_block)
         /\ CommittedBlock(db, prev_block)

\* one block was committed and the commit of the next one failed
C11_Witness ==
    /\ map_fault = "commit"
    /\ map_result = MapErr("Committing db transaction")
    /\ Len(returned) = 1
    /\ CommittedBlock(db, start_block)
    /\ UnwrittenBlock(db, current_block)

(***************************************************************************)
(* Properties of abandoned calls and streams (SpecAtomic)                  *)
(***************************************************************************)
\* a map call is in progress: its transaction is open and not committed
MapInProgress == map_pc \notin {"none", "idle"}

\* the tries are those the last committed block left, or the initial ones
TriesMatchCommitted(store) ==
    IF returned = <<>>
    THEN store.tries = [storage |-> {}, class |-> {}]
    ELSE LET roots == store.commitments[returned[Len(returned)]]
         IN  /\ roots # None
             /\ store.tries = [storage |-> roots[1].storage_commitment,
                                class |-> roots[1].class_commitment]

\* C12: while a map call is in progress, and after it was abandoned at any
\* step before the commit or returned an error, the committed store and
\* the cursor are what they were before the call; the committed store
\* never has the trie-root commitments of a block without its state update
\* record or the record without the commitments, and its tries are those
\* of the last committed block; a stream, abandoned or not, leaves the
\* store as it was when the stream was constructed.
C12_AbandonLeavesStoreUnchanged ==
    /\ MapInProgress => (db = prev_db /\ current_block = prev_block)
    /\ map_result = MapAbandoned => (db = prev_db /\ current_block = prev_block)
    /\ map_result.tag = "Err" => (db = prev_db /\ current_block = prev_block)
    /\ \A b \in Blocks : db.commitments[b] = None <=> db.state_updates[b] = None
    /\ map_pc # "none" => TriesMatchCommitted(db)
    /\ stream_pc # "idle" => state_diffs = stream_rows0

\* one block was committed and the call for the next one was abandoned
\* with all its writes made, right before the commit
C12_Witness ==
    /\ map_result = MapAbandoned
    /\ map_fault = "commit"
    /\ Len(returned) = 1
    /\ CommittedBlock(db, start_block)
    /\ UnwrittenBlock(db, current_block)

(***************************************************************************)
(* Properties of next_missing (SpecMissing)                                *)
(***************************************************************************)
NextMissingReturned == nm_result.tag = "Ok"

\* block b has a persisted state update
HasStateUpdate(b) == state_diff_row(state_diffs, b) # None

\* no block has a persisted state update
NoStateUpdate == \A b \in DOMAIN state_diffs : ~HasStateUpdate(b)

\* h is the highest block with a persisted state update
IsHighest(h) ==
    /\ HasStateUpdate(h)
    /\ \A b \in DOMAIN state_diffs : b > h => ~HasStateUpdate(b)

\* C13: next_missing(head) is genesis when no state update exists and head
\* is past genesis, highest + 1 when the highest block with a state update
\* is below head, and None otherwise (empty store, head 10: 0; highest 5,
\* head 10: 6; highest = head: None).
C13_NextMissingCases ==
    NextMissingReturned =>
       /\ (NoStateUpdate /\ nm_head > BlockNumber_GENESIS)
             => nm_result.value = Some(BlockNumber_GENESIS)
       /\ (NoStateUpdate /\ nm_head = BlockNumber_GENESIS) => nm_result.value = None
       /\ \A h \in DOMAIN state_diffs :
            IsHighest(h) =>
               /\ h < nm_head => nm_result.value = Some(h + 1)
               /\ h >= nm_head => nm_result.value = None
       /\ (NoStateUpdate /\ nm_head = 10) => nm_result.value = Some(0)
       /\ (IsHighest(5) /\ nm_head = 10) => nm_result.value = Some(6)

\* the highest block with a state update is 5 and the head is 10
C13_Witness ==
    /\ NextMissingReturned
    /\ IsHighest(5)
    /\ nm_head = 10
    /\ nm_result.value = Some(6)

\* the blocks with a persisted state update are those below some block
ContiguousFromGenesis ==
    \E n \in 0..(MaxHead + 1) : \A b \in DOMAIN state_diffs : HasStateUpdate(b) <=> b < n

\* C14: over a store whose state updates form a contiguous range from
\* genesis (the empty store included) and for every head (genesis included),
\* next_missing returns the first block whose state update is missing, and
\* returns None only if every block from genesis up to and including head
\* has its state update.
C14_FirstMissingFromGenesis ==
    (NextMissingReturned /\ ContiguousFromGenesis) =>
       /\ nm_result.value # None =>
            /\ ~HasStateUpdate(nm_result.value[1])
            /\ \A b \in 0..(nm_result.value[1] - 1) : HasStateUpdate(b)
       /\ nm_result.value = None => \A b \in 0..nm_head : HasStateUpdate(b)

(***************************************************************************)
(* Properties of length_and_commitment_stream (SpecStream)                 *)
(***************************************************************************)
StreamConstructed == stream_pc # "idle"

\* the number of blocks of [start, stop]
RangeLength == Max(0, stream_stop - stream_start0 + 1)

\* every block of [start, stop] has a state update
FullRange == \A b \in stream_start0..stream_stop : HasStateUpdate(b)

\* g is the first block of [start, stop] without a state update
FirstGap(g) ==
    /\ g \in stream_start0..stream_stop
    /\ ~HasStateUpdate(g)
    /\ \A b \in stream_start0..(g - 1) : HasStateUpdate(b)

\* the i-th item yielded is the row of block start + i - 1
YieldedInOrder ==
    \A i \in 1..Len(stream_yielded) :
        Some(stream_yielded[i]) = state_diff_row(state_diffs, stream_start0 + i - 1)

DataGapError == "No state update counts found"

\* C15: over a store with a state update for every block of [start, stop]
\* the items yielded are the rows of the blocks start, start + 1, ... in
\* that order, never more than stop - start + 1 of them, the stream fails
\* only when a storage operation does, and it ends after exactly
\* stop - start + 1 items (none when start > stop).
C15_StreamYieldsRange ==
    (StreamConstructed /\ FullRange) =>
       /\ YieldedInOrder
       /\ Len(stream_yielded) <= RangeLength
       /\ stream_error # DataGapError
       /\ stream_pc = "done" => Len(stream_yielded) = RangeLength
       /\ (stream_pc = "running" /\ Len(stream_yielded) = RangeLength)
             => (stream_batch = <<>> /\ stream_start > stream_stop)

\* a range of one batch and one block was yielded to its end
C15_Witness ==
    /\ FullRange
    /\ stream_pc = "done"
    /\ stream_stop - stream_start0 + 1 = BATCH_SIZE + 1
    /\ Len(stream_yielded) = BATCH_SIZE + 1
    /\ Some(stream_yielded[BATCH_SIZE + 1]) = state_diff_row(state_diffs, stream_stop)

C17_StreamBuffering ==
    /\ Len(stream_batch) <= BATCH_SIZE
    /\ stream_fetch # NoFetch =>
         /\ stream_fetch.batch_size = Min(BATCH_SIZE, stream_fetch.remaining)
         /\ stream_fetch.batch_size >= 1
         /\ stream_fetch.batch_size <= stream_fetch.remaining
         /\ stream_fetch.buffered = 0
         /\ stream_fetch.got <= stream_fetch.batch_size
         /\ stream_start = stream_fetch.start + stream_fetch.got
    /\ StreamConstructed =>
         stream_start - stream_start0 = Len(stream_yielded) + Len(stream_batch)

\* the third fetch of a range of two batches and one block
C17_Witness ==
    /\ stream_fetch.start = stream_start0 + 2 * BATCH_SIZE
    /\ stream_fetch.remaining = 1
    /\ stream_fetch.batch_size = 1
    /\ stream_fetch.got = 1
    /\ Len(stream_batch) = 1

====
